---- MODULE Spec2Model ----
(***************************************************************************)
(* Pixel/rectangle collision engine of src/src/modules/collision.rs.       *)
(*                                                                         *)
(* Numbers: every f32 of the source is a fixed-point integer counting      *)
(* thousandths (Unit = 1.000).  Products and quotients are rounded to the  *)
(* nearest thousandth, `as usize` truncates.  Angles are thousandths of a  *)
(* radian; cos and sin are tabulated in thousandths for the angles the     *)
(* inputs can produce.  Texture dimensions are whole texel counts.         *)
(***************************************************************************)
EXTENDS Integers, Sequences, FiniteSets, TLC

VARIABLES obj1, obj2, skip_pixels, backend, pc, result, scanner, overlap,
          y, x, tested, lookups, satRan, axes, axisIdx, bit_query, bit_answer,
          call_args, call_ret

vars == <<obj1, obj2, skip_pixels, backend, pc, result, scanner, overlap,
          y, x, tested, lookups, satRan, axes, axisIdx, bit_query, bit_answer,
          call_args, call_ret>>

----------------------------------------------------------------------------
(* Bounds of the explored inputs *)

\* longest mask handed to is_mask_bit_set on its own, in bytes
MaxMaskLen == 2

\* largest texel count per axis handed to calc_tex_coord on its own
MaxTexels == 4

\* largest width and height handed to calculate_rotated_bounding_box on its own
MaxBoxExtent == 3

\* most half turns, either way, in an angle handed to the normalization on its own
MaxHalfTurns == 3

\* largest stride tried (0 is tried as well)
MaxSkip == 2

\* the second entity is placed at whole-unit offsets up to this many units
MaxShift == 2

----------------------------------------------------------------------------
(* f32 arithmetic in thousandths *)

Unit == 1000

Vec2(a, b) == [x |-> a, y |-> b]

Abs(n) == IF n < 0 THEN -n ELSE n

Min(a, b) == IF a < b THEN a ELSE b

Max(a, b) == IF a > b THEN a ELSE b

\* n / d rounded to the nearest integer (d > 0)
RoundDiv(n, d) == (2 * n + d) \div (2 * d)

\* product of two fixed-point numbers
Mul(a, b) == RoundDiv(a * b, Unit)

\* quotient of two fixed-point numbers (b > 0)
Div(a, b) == RoundDiv(a * Unit, b)

\* variant: the cast rounds up
AsUsize_RoundUp(v) == IF v <= 0 THEN 0 ELSE (v + Unit - 1) \div Unit

\* `v as usize`: truncation toward zero, negative values saturate to 0
AsUsize(v) == IF v <= 0 THEN 0 ELSE v \div Unit

\* Rust's % on floats: the remainder has the sign of the dividend
Rem(a, m) == IF a >= 0 THEN a % m ELSE -((-a) % m)

\* Newton iteration down to the integer part of the square root of n
RECURSIVE SqrtIter(_, _)
SqrtIter(n, r) ==
  IF (r + n \div r) \div 2 >= r THEN r ELSE SqrtIter(n, (r + n \div r) \div 2)

NearestRoot(n, f) == IF n - f * f > f THEN f + 1 ELSE f

\* square root of a non-negative integer, rounded to the nearest integer
Sqrt(n) == IF n = 0 THEN 0 ELSE NearestRoot(n, SqrtIter(n, n))

----------------------------------------------------------------------------
(* Angles *)

PI == 3142

TWO_PI == 2 * PI

SMALL_ANGLE_THRESHOLD == 50

\* named input angles
SmallAngle == SMALL_ANGLE_THRESHOLD - 10

QuarterTurn == PI \div 2

EighthTurn == PI \div 4

\* the angle rotate_point uses for `angle`
\* variant: only angles above pi are wrapped
WrapAngle_UpperOnly(a) == IF a > PI THEN a - TWO_PI ELSE a

WrapAngle(a) ==
  IF a > PI THEN a - TWO_PI
  ELSE IF a < -PI THEN a + TWO_PI
  ELSE a

NormalizeAngle(angle) == WrapAngle(Rem(angle, TWO_PI))

\* f32::cos on a normalized angle
Cos(a) ==
  CASE a = 0 -> 1000
    [] Abs(a) = SmallAngle -> 999
    [] Abs(a) = EighthTurn -> 707
    [] Abs(a) = QuarterTurn -> 0
    [] Abs(a) = PI -> -1000

\* f32::sin on a normalized angle
SinOfMagnitude(a) ==
  CASE a = 0 -> 0
    [] a = SmallAngle -> 40
    [] a = EighthTurn -> 707
    [] a = QuarterTurn -> 1000
    [] a = PI -> 0

Sin(a) == IF a < 0 THEN -SinOfMagnitude(-a) ELSE SinOfMagnitude(a)

----------------------------------------------------------------------------
(* Geometry utilities *)

\* the standard 2D rotation of a translated point, translated back
RotateAbout(translated, cos_angle, sin_angle, center) ==
  Vec2(Mul(translated.x, cos_angle) - Mul(translated.y, sin_angle) + center.x,
       Mul(translated.x, sin_angle) + Mul(translated.y, cos_angle) + center.y)

RotateBy(translated, normalized_angle, center) ==
  RotateAbout(translated, Cos(normalized_angle), Sin(normalized_angle), center)

rotate_point(point, center, angle) ==
  IF angle = 0 THEN point
  ELSE RotateBy(Vec2(point.x - center.x, point.y - center.y),
                NormalizeAngle(angle), center)

\* centre of a rectangle: pos + size / 2.0
Center(pos, size) == Vec2(pos.x + size.x \div 2, pos.y + size.y \div 2)

Min4(a, b, c, d) == Min(Min(Min(a, b), c), d)

Max4(a, b, c, d) == Max(Max(Max(a, b), c), d)

\* variant: no margin
Margin_None(len) == 0

\* 2% of a length
Margin(len) == RoundDiv(len * 2, 100)

\* variant: the size grows by one margin only
BoxWithMargin_OneSided(min_x, min_y, max_x, max_y, margin_x, margin_y) ==
  [pos  |-> Vec2(min_x - margin_x, min_y - margin_y),
   size |-> Vec2(max_x - min_x + margin_x, max_y - min_y + margin_y)]

\* the box of the extents min..max, moved out by the margins
BoxWithMargin(min_x, min_y, max_x, max_y, margin_x, margin_y) ==
  [pos  |-> Vec2(min_x - margin_x, min_y - margin_y),
   size |-> Vec2(max_x - min_x + 2 * margin_x, max_y - min_y + 2 * margin_y)]

\* the extents of four rotated corners
BoxOfCorners(tl, tr, bl, br, margin_x, margin_y) ==
  BoxWithMargin(Min4(tl.x, tr.x, bl.x, br.x), Min4(tl.y, tr.y, bl.y, br.y),
                Max4(tl.x, tr.x, bl.x, br.x), Max4(tl.y, tr.y, bl.y, br.y),
                margin_x, margin_y)

calculate_rotated_bounding_box(pos, size, angle) ==
  IF angle = 0 THEN [pos |-> pos, size |-> size]
  ELSE BoxOfCorners(
         rotate_point(pos, Center(pos, size), angle),
         rotate_point(Vec2(pos.x + size.x, pos.y), Center(pos, size), angle),
         rotate_point(Vec2(pos.x, pos.y + size.y), Center(pos, size), angle),
         rotate_point(Vec2(pos.x + size.x, pos.y + size.y), Center(pos, size), angle),
         Margin(size.x), Margin(size.y))

\* sizes below 0.001 are replaced by 0.001
SafeSize(len) == IF len < 1 THEN 1 ELSE len

\* variant: the normalized coordinate is clamped to 1.0
Clamp_ToOne(norm) == Min(Max(norm, 0), Unit)

\* norm.max(0.0).min(0.999)
Clamp(norm) == Min(Max(norm, 0), 999)

\* one texel coordinate: offset / safe size, clamped, scaled by the texel count
TexCoord(offset, len, texels) == AsUsize(Clamp(Div(offset, SafeSize(len))) * texels)

\* texel coordinates of a point; tex_size counts texels
calc_tex_coord(point, pos, size, tex_size) ==
  [tx |-> TexCoord(point.x - pos.x, size.x, tex_size.x),
   ty |-> TexCoord(point.y - pos.y, size.y, tex_size.y)]

Pow2(n) == CASE n = 0 -> 1 [] n = 1 -> 2 [] n = 2 -> 4 [] n = 3 -> 8
             [] n = 4 -> 16 [] n = 5 -> 32 [] n = 6 -> 64 [] n = 7 -> 128

\* variant: least significant bit first
MaskBit_LsbFirst(mask_byte, idx) == (mask_byte \div Pow2(idx % 8)) % 2

\* (mask_byte >> (7 - idx % 8)) & 1
MaskBit(mask_byte, idx) == (mask_byte \div Pow2(7 - (idx % 8))) % 2

\* variant: a missing byte reads as a clear bit
is_mask_bit_set_MissingIsClear(mask, idx) ==
  IF idx \div 8 >= Len(mask) THEN "false"
  ELSE IF MaskBit(mask[idx \div 8 + 1], idx) = 1 THEN "true" ELSE "false"

\* Option<bool>: "None" when the byte is missing, else "true" / "false"
is_mask_bit_set(mask, idx) ==
  IF idx \div 8 >= Len(mask) THEN "None"
  ELSE IF MaskBit(mask[idx \div 8 + 1], idx) = 1 THEN "true" ELSE "false"

\* variant: a missing bit counts as opaque
UnwrapOrFalse_MissingIsOpaque(opt) == opt # "false"

\* Option::unwrap_or(false)
UnwrapOrFalse(opt) == opt = "true"

\* variant: the near edges are excluded
is_point_in_bounds_Open(point, pos, size) ==
  /\ point.x > pos.x /\ point.x < pos.x + size.x
  /\ point.y > pos.y /\ point.y < pos.y + size.y

is_point_in_bounds(point, pos, size) ==
  /\ point.x >= pos.x /\ point.x < pos.x + size.x
  /\ point.y >= pos.y /\ point.y < pos.y + size.y

----------------------------------------------------------------------------
(* Entities: the five accessors of the Collidable trait *)

NoMask == [some |-> FALSE, bytes |-> <<>>]

SomeMask(bytes) == [some |-> TRUE, bytes |-> bytes]

Entity(pos, size, tex, angle, mask) ==
  [pos |-> pos, size |-> size, tex |-> tex, angle |-> angle, mask |-> mask]

----------------------------------------------------------------------------
(* Oriented-rectangle test *)

\* variant: the first comparison admits equality
AabbOverlap_HalfClosed(pos1, size1, pos2, size2) ==
  /\ pos1.x <= pos2.x + size2.x
  /\ pos1.x + size1.x > pos2.x
  /\ pos1.y < pos2.y + size2.y
  /\ pos1.y + size1.y > pos2.y

\* the strict axis-aligned overlap of the fast path
AabbOverlap(pos1, size1, pos2, size2) ==
  /\ pos1.x < pos2.x + size2.x
  /\ pos1.x + size1.x > pos2.x
  /\ pos1.y < pos2.y + size2.y
  /\ pos1.y + size1.y > pos2.y

\* variant: one angle below the threshold is enough
BothSmallAngles_Either(angle1, angle2) ==
  Abs(angle1) < SMALL_ANGLE_THRESHOLD \/ Abs(angle2) < SMALL_ANGLE_THRESHOLD

\* variant: only the first angle is compared with the threshold
BothSmallAngles_First(angle1, angle2) == Abs(angle1) < SMALL_ANGLE_THRESHOLD

BothSmallAngles(angle1, angle2) ==
  Abs(angle1) < SMALL_ANGLE_THRESHOLD /\ Abs(angle2) < SMALL_ANGLE_THRESHOLD

\* the four corners of a rectangle rotated about its centre
CornersAbout(c, hw, hh, angle) ==
  << rotate_point(Vec2(c.x - hw, c.y - hh), c, angle),
     rotate_point(Vec2(c.x + hw, c.y - hh), c, angle),
     rotate_point(Vec2(c.x + hw, c.y + hh), c, angle),
     rotate_point(Vec2(c.x - hw, c.y + hh), c, angle) >>

Corners(pos, size, angle) ==
  CornersAbout(Center(pos, size), size.x \div 2, size.y \div 2, angle)

Edges(corners) ==
  [i \in 1..4 |->
     LET j == (i % 4) + 1
     IN  Vec2(corners[j].x - corners[i].x, corners[j].y - corners[i].y)]

\* length of the perpendicular of an edge
PerpLength(edge) == Sqrt(edge.x * edge.x + edge.y * edge.y)

\* an edge yields an axis when its length exceeds 0.0001, a tenth of a thousandth
EdgeIsSignificant(edge) == PerpLength(edge) * 10 > 1

\* the perpendicular (-edge.y, edge.x) divided by its length
UnitPerp(edge, length) == Vec2(Div(-edge.y, length), Div(edge.x, length))

AxisOf(edge) == UnitPerp(edge, PerpLength(edge))

RECURSIVE AxesOfEdges(_, _)
AxesOfEdges(edges, i) ==
  IF i > 4 THEN <<>>
  ELSE (IF EdgeIsSignificant(edges[i]) THEN <<AxisOf(edges[i])>> ELSE <<>>)
       \o AxesOfEdges(edges, i + 1)

\* the axes list: normals of the first rectangle's edges, then the second's
CollectAxes(corners1, corners2) ==
  AxesOfEdges(Edges(corners1), 1) \o AxesOfEdges(Edges(corners2), 1)

Projection(corner, axis) == Mul(corner.x, axis.x) + Mul(corner.y, axis.y)

ProjMin(corners, axis) ==
  Min4(Projection(corners[1], axis), Projection(corners[2], axis),
       Projection(corners[3], axis), Projection(corners[4], axis))

\* variant: the last corner is left out of the maximum
ProjMax_ThreeCorners(corners, axis) ==
  Max(Max(Projection(corners[1], axis), Projection(corners[2], axis)),
      Projection(corners[3], axis))

ProjMax(corners, axis) ==
  Max4(Projection(corners[1], axis), Projection(corners[2], axis),
       Projection(corners[3], axis), Projection(corners[4], axis))

\* variant: intervals that touch count as separated
IntervalsSeparated_Closed(min1, max1, min2, max2) == min1 >= max2 \/ min2 >= max1

\* the gap test on two projection intervals
IntervalsSeparated(min1, max1, min2, max2) == min1 > max2 \/ min2 > max1

GapOnAxis(corners1, corners2, axis) ==
  IntervalsSeparated(ProjMin(corners1, axis), ProjMax(corners1, axis),
                     ProjMin(corners2, axis), ProjMax(corners2, axis))

\* the general path: no axis of the list shows a gap
NoGapOnAnyAxis(corners1, corners2, axs) ==
  \A i \in 1..Len(axs) : ~GapOnAxis(corners1, corners2, axs[i])

CornersOverlap(corners1, corners2) ==
  NoGapOnAnyAxis(corners1, corners2, CollectAxes(corners1, corners2))

SeparatingAxisTest(pos1, size1, angle1, pos2, size2, angle2) ==
  CornersOverlap(Corners(pos1, size1, angle1), Corners(pos2, size2, angle2))

check_rotated_rectangle_collision(pos1, size1, angle1, pos2, size2, angle2) ==
  IF BothSmallAngles(angle1, angle2)
  THEN AabbOverlap(pos1, size1, pos2, size2)
  ELSE SeparatingAxisTest(pos1, size1, angle1, pos2, size2, angle2)

----------------------------------------------------------------------------
(* Bounding-box overlap and the sampled index space *)

\* variant: the overlap region starts at the first box's origin
OverlapOfBoxes_FirstOrigin(r1, r2) ==
  [x |-> r1.pos.x,
   y |-> r1.pos.y,
   w |-> Min(r1.pos.x + r1.size.x, r2.pos.x + r2.size.x) - Max(r1.pos.x, r2.pos.x),
   h |-> Min(r1.pos.y + r1.size.y, r2.pos.y + r2.size.y) - Max(r1.pos.y, r2.pos.y)]

OverlapOfBoxes(r1, r2) ==
  [x |-> Max(r1.pos.x, r2.pos.x),
   y |-> Max(r1.pos.y, r2.pos.y),
   w |-> Min(r1.pos.x + r1.size.x, r2.pos.x + r2.size.x) - Max(r1.pos.x, r2.pos.x),
   h |-> Min(r1.pos.y + r1.size.y, r2.pos.y + r2.size.y) - Max(r1.pos.y, r2.pos.y)]

BoundingBoxOverlap(a, b) ==
  OverlapOfBoxes(calculate_rotated_bounding_box(a.pos, a.size, a.angle),
                 calculate_rotated_bounding_box(b.pos, b.size, b.angle))

\* variant: exit only when both extents are empty
NoBoundingBoxOverlap_Both(ov) == ov.w <= 0 /\ ov.h <= 0

\* variant: an overlap of width or height exactly 0 passes
NoBoundingBoxOverlap_Strict(ov) == ov.w < 0 \/ ov.h < 0

\* the early exit of check_collision
NoBoundingBoxOverlap(ov) == ov.w <= 0 \/ ov.h <= 0

\* variant: n strides are taken, running past the end of the range
StepBy_Overshoot(n, k) == {i * k : i \in 0..(n - 1)}

\* (0..n).step_by(k): the indices visited, k >= 1
StepBy(n, k) == {i \in 0..(n - 1) : i % k = 0}

\* the sampled (row, column) offsets of an overlap region
SampledPoints(ov, k) == StepBy(AsUsize(ov.h), k) \X StepBy(AsUsize(ov.w), k)

\* variant: the indices count from 1
WorldPoint_FromOne(ov, py, px) == Vec2(ov.x + (px + 1) * Unit, ov.y + (py + 1) * Unit)

WorldPoint(ov, py, px) == Vec2(ov.x + px * Unit, ov.y + py * Unit)

\* variant: the index counts from 1
MaskIndex_OneBased(tc, tex) == tc.ty * tex.x + tc.tx + 1

\* ty * tex_size.x as usize + tx
MaskIndex(tc, tex) == tc.ty * tex.x + tc.tx

----------------------------------------------------------------------------
(* Per-point tests of the four scanners: hit, and how many mask lookups ran *)

PointResult(hit, n) == [hit |-> hit, lookups |-> n]

\* the mask bit of entity e at a point of e's unrotated frame
OpaqueAt(e, point) ==
  UnwrapOrFalse(is_mask_bit_set(e.mask.bytes,
                                MaskIndex(calc_tex_coord(point, e.pos, e.size, e.tex),
                                          e.tex)))

\* the point in entity e's unrotated frame
LocalPoint(e, wp) == rotate_point(wp, Center(e.pos, e.size), -e.angle)

\* both masked, no rotation (closure body of check_collision)
BothMaskedPoint(a, b, wp) == PointResult(OpaqueAt(a, wp) /\ OpaqueAt(b, wp), 2)

\* exactly one masked, no rotation (closure body of check_one_masked_collision)
OneMaskedPoint(m, o, wp) ==
  PointResult(OpaqueAt(m, wp) /\ is_point_in_bounds(wp, o.pos, o.size), 1)

\* variant: the mask is read before the containment test
OneRotatedMaskedLocal_LookupFirst(m, o, local_masked_point, local_other_point) ==
  PointResult(/\ OpaqueAt(m, local_masked_point)
              /\ is_point_in_bounds(local_masked_point, m.pos, m.size)
              /\ is_point_in_bounds(local_other_point, o.pos, o.size), 1)

\* variant: the other entity's rectangle is not consulted
OneRotatedMaskedLocal_IgnoresOther(m, o, local_masked_point, local_other_point) ==
  IF ~is_point_in_bounds(local_masked_point, m.pos, m.size)
  THEN PointResult(FALSE, 0)
  ELSE PointResult(OpaqueAt(m, local_masked_point), 1)

\* exactly one masked, rotation present
OneRotatedMaskedLocal(m, o, local_masked_point, local_other_point) ==
  IF ~is_point_in_bounds(local_masked_point, m.pos, m.size)
  THEN PointResult(FALSE, 0)
  ELSE IF ~OpaqueAt(m, local_masked_point) THEN PointResult(FALSE, 1)
  ELSE PointResult(is_point_in_bounds(local_other_point, o.pos, o.size), 1)

OneRotatedMaskedPoint(m, o, wp) ==
  OneRotatedMaskedLocal(m, o, LocalPoint(m, wp), LocalPoint(o, wp))

\* variant: only the first entity's rectangle is tested before the masks are read
BothRotatedMaskedLocal_FirstOnly(a, b, local_point1, local_point2) ==
  IF ~is_point_in_bounds(local_point1, a.pos, a.size)
  THEN PointResult(FALSE, 0)
  ELSE PointResult(OpaqueAt(a, local_point1) /\ OpaqueAt(b, local_point2), 2)

\* both masked, rotation present (closure body of check_rotated_pixel_collision)
BothRotatedMaskedLocal(a, b, local_point1, local_point2) ==
  IF \/ ~is_point_in_bounds(local_point1, a.pos, a.size)
     \/ ~is_point_in_bounds(local_point2, b.pos, b.size)
  THEN PointResult(FALSE, 0)
  ELSE PointResult(OpaqueAt(a, local_point1) /\ OpaqueAt(b, local_point2), 2)

BothRotatedMaskedPoint(a, b, wp) ==
  BothRotatedMaskedLocal(a, b, LocalPoint(a, wp), LocalPoint(b, wp))

----------------------------------------------------------------------------
(* Dispatch of check_collision and check_rotated_pixel_collision *)

Rotated(a, b) == a.angle # 0 \/ b.angle # 0

\* variant: with exactly one mask the first entity is always the masked argument
Route_FirstIsMasked(a, b) ==
  IF ~a.mask.some /\ ~b.mask.some
  THEN (IF Rotated(a, b) THEN "sat" ELSE "bbox")
  ELSE IF Rotated(a, b)
  THEN (IF a.mask.some /\ b.mask.some THEN "both_rotated_masked"
        ELSE "one_rotated_masked_1")
  ELSE IF a.mask.some /\ b.mask.some THEN "both_masked"
  ELSE "one_masked_1"

\* variant: rotation is examined before the masks
Route_RotationFirst(a, b) ==
  IF Rotated(a, b)
  THEN (IF a.mask.some /\ ~b.mask.some THEN "one_rotated_masked_1"
        ELSE IF ~a.mask.some /\ b.mask.some THEN "one_rotated_masked_2"
        ELSE "both_rotated_masked")
  ELSE IF ~a.mask.some /\ ~b.mask.some THEN "bbox"
  ELSE IF a.mask.some /\ ~b.mask.some THEN "one_masked_1"
  ELSE IF ~a.mask.some /\ b.mask.some THEN "one_masked_2"
  ELSE "both_masked"

\* which routine decides the call once the bounding boxes overlap
Route(a, b) ==
  IF ~a.mask.some /\ ~b.mask.some
  THEN (IF Rotated(a, b) THEN "sat" ELSE "bbox")
  ELSE IF Rotated(a, b)
  THEN (IF a.mask.some /\ ~b.mask.some THEN "one_rotated_masked_1"
        ELSE IF ~a.mask.some /\ b.mask.some THEN "one_rotated_masked_2"
        ELSE "both_rotated_masked")
  ELSE IF a.mask.some /\ ~b.mask.some THEN "one_masked_1"
  ELSE IF ~a.mask.some /\ b.mask.some THEN "one_masked_2"
  ELSE "both_masked"

IsScanner(route) == route \notin {"sat", "bbox"}

\* the per-point test of the scanner a route names
PointTest(route, a, b, wp) ==
  CASE route = "both_masked"          -> BothMaskedPoint(a, b, wp)
    [] route = "one_masked_1"         -> OneMaskedPoint(a, b, wp)
    [] route = "one_masked_2"         -> OneMaskedPoint(b, a, wp)
    [] route = "one_rotated_masked_1" -> OneRotatedMaskedPoint(a, b, wp)
    [] route = "one_rotated_masked_2" -> OneRotatedMaskedPoint(b, a, wp)
    [] route = "both_rotated_masked"  -> BothRotatedMaskedPoint(a, b, wp)

\* `.any(..)` over the sampled index space: some sampled point is a hit
ScanAny(route, a, b, ov, k) ==
  \E p \in SampledPoints(ov, k) : PointTest(route, a, b, WorldPoint(ov, p[1], p[2])).hit

Outcome(hit) == IF hit THEN "true" ELSE "false"

\* check_collision once the overlap ov of the bounding boxes is known
CollisionGiven(a, b, k, ov, route) ==
  IF NoBoundingBoxOverlap(ov) THEN "false"
  ELSE IF route = "bbox" THEN "true"
  ELSE IF route = "sat"
  THEN Outcome(check_rotated_rectangle_collision(a.pos, a.size, a.angle,
                                                 b.pos, b.size, b.angle))
  ELSE IF k = 0 THEN "panic"
  ELSE Outcome(ScanAny(route, a, b, ov, k))

\* the value of a whole call: "true", "false", or "panic" (step_by(0) asserts)
check_collision(a, b, k) ==
  CollisionGiven(a, b, k, BoundingBoxOverlap(a, b), Route(a, b))

----------------------------------------------------------------------------
(* Inputs *)

Square(n) == Vec2(n * Unit, n * Unit)

Texels(n) == Vec2(n, n)

Shape(size, tex, mask) == [size |-> size, tex |-> tex, mask |-> mask]

\* 2x2 texels, top-left texel opaque
MaskTopLeft == SomeMask(<<128>>)

\* 2x2 texels, only texel (1, 0) opaque
MaskSecond == SomeMask(<<64>>)

\* 2x2 texels, all four opaque
MaskAll == SomeMask(<<240>>)

\* 4x4 texels, only texel (2, 0) opaque
MaskThird == SomeMask(<<32, 0>>)

\* 4x4 texels, one byte only: texel rows 0 and 1 opaque, rows 2 and 3 missing
MaskTopRows == SomeMask(<<255>>)

\* a mask that is present and has no bytes
MaskEmpty == SomeMask(<<>>)

Shapes1 ==
  { Shape(Square(2), Texels(2), NoMask),
    Shape(Square(2), Texels(2), MaskTopLeft),
    Shape(Square(2), Texels(2), MaskAll),
    Shape(Square(1), Texels(2), MaskSecond),
    Shape(Square(2), Texels(2), MaskEmpty),
    Shape(Square(2), Texels(4), MaskTopRows) }

Shapes2 ==
  { Shape(Square(2), Texels(2), NoMask),
    Shape(Square(4), Texels(4), NoMask),
    Shape(Square(2), Texels(2), MaskTopLeft),
    Shape(Square(2), Texels(2), MaskAll),
    Shape(Square(4), Texels(4), MaskThird),
    Shape(Square(1), Texels(1), SomeMask(<<128>>)) }

Angles1 == {0, EighthTurn, TWO_PI}

Angles2 == {0, SmallAngle, EighthTurn}

Positions2 ==
  { Vec2(px, py) : px \in {-Unit, 0, Unit \div 2} \cup {i * Unit : i \in 1..MaxShift},
                   py \in {0, Unit} }

Entities1 ==
  { Entity(Vec2(0, 0), s.size, s.tex, a, s.mask) : s \in Shapes1, a \in Angles1 }

Entities2 ==
  { Entity(p, s.size, s.tex, a, s.mask) : p \in Positions2, s \in Shapes2, a \in Angles2 }

Backends == {"seq", "par"}

----------------------------------------------------------------------------
(* One call of check_collision *)

\* no utility function is under study on its own
NoCall == "none"

\* no mask lookup is under study during a call of check_collision
NoQuery == [mask |-> <<>>, idx |-> 0]

NoOverlapRecord == [x |-> 0, y |-> 0, w |-> 0, h |-> 0]

Init ==
  /\ obj1 \in Entities1
  /\ obj2 \in Entities2
  /\ skip_pixels \in 0..MaxSkip
  /\ backend \in Backends
  /\ pc = "start"
  /\ result = "none"
  /\ scanner = "none"
  /\ overlap = NoOverlapRecord
  /\ y = 0
  /\ x = 0
  /\ tested = {}
  /\ lookups = 0
  /\ satRan = FALSE
  /\ axes = <<>>
  /\ axisIdx = 0
  /\ bit_query = NoQuery
  /\ bit_answer = "none"
  /\ call_args = NoCall
  /\ call_ret = "none"

Return(value) ==
  /\ result' = value
  /\ pc' = "done"

\* lines 148-156: the overlap of the two rotated bounding boxes
ComputeOverlap ==
  /\ pc = "start"
  /\ overlap' = BoundingBoxOverlap(obj1, obj2)
  /\ pc' = "dispatch"
  /\ UNCHANGED <<call_args, call_ret, bit_query, bit_answer, obj1, obj2, skip_pixels, backend, result, scanner, y, x, tested,
                 lookups, satRan, axes, axisIdx>>

\* lines 158-161: empty bounding-box overlap
ReturnNoOverlap ==
  /\ pc = "dispatch"
  /\ NoBoundingBoxOverlap(overlap)
  /\ Return("false")
  /\ UNCHANGED <<call_args, call_ret, bit_query, bit_answer, obj1, obj2, skip_pixels, backend, scanner, overlap, y, x, tested,
                 lookups, satRan, axes, axisIdx>>

\* lines 164-173, angles both zero: the bounding boxes decide
ReturnBoundingBox ==
  /\ pc = "dispatch"
  /\ ~NoBoundingBoxOverlap(overlap)
  /\ Route(obj1, obj2) = "bbox"
  /\ UNCHANGED overlap
  /\ Return("true")
  /\ UNCHANGED <<call_args, call_ret, bit_query, bit_answer, obj1, obj2, skip_pixels, backend, scanner, y, x, tested, lookups,
                 satRan, axes, axisIdx>>

\* lines 166-171: call check_rotated_rectangle_collision
CallRectangleTest ==
  /\ pc = "dispatch"
  /\ ~NoBoundingBoxOverlap(overlap)
  /\ Route(obj1, obj2) = "sat"
  /\ UNCHANGED overlap
  /\ satRan' = TRUE
  /\ pc' = "rect"
  /\ UNCHANGED <<call_args, call_ret, bit_query, bit_answer, obj1, obj2, skip_pixels, backend, result, scanner, y, x, tested,
                 lookups, axes, axisIdx>>

\* lines 176-232: a pixel scanner starts over the overlap region
EnterScanner ==
  /\ pc = "dispatch"
  /\ ~NoBoundingBoxOverlap(overlap)
  /\ IsScanner(Route(obj1, obj2))
  /\ skip_pixels >= 1
  /\ UNCHANGED overlap
  /\ scanner' = Route(obj1, obj2)
  /\ pc' = "scan"
  /\ UNCHANGED <<call_args, call_ret, bit_query, bit_answer, obj1, obj2, skip_pixels, backend, result, y, x, tested, lookups,
                 satRan, axes, axisIdx>>

\* step_by(0) asserts that the step is not zero
PanicOnZeroStep ==
  /\ pc = "dispatch"
  /\ ~NoBoundingBoxOverlap(overlap)
  /\ IsScanner(Route(obj1, obj2))
  /\ skip_pixels = 0
  /\ UNCHANGED overlap
  /\ scanner' = Route(obj1, obj2)
  /\ pc' = "panicked"
  /\ UNCHANGED <<call_args, call_ret, bit_query, bit_answer, obj1, obj2, skip_pixels, backend, result, y, x, tested, lookups,
                 satRan, axes, axisIdx>>

ScanHeight == AsUsize(overlap.h)

ScanWidth == AsUsize(overlap.w)

TestAt(py, px) == PointTest(scanner, obj1, obj2, WorldPoint(overlap, py, px))

(* Sequential backend: the nested for loops *)

SeqTest ==
  /\ pc = "scan" /\ backend = "seq"
  /\ y < ScanHeight /\ x < ScanWidth
  /\ tested' = tested \cup {<<y, x>>}
  /\ lookups' = lookups + TestAt(y, x).lookups
  /\ IF TestAt(y, x).hit
     THEN Return("true") /\ UNCHANGED <<y, x>>
     ELSE x' = x + skip_pixels /\ UNCHANGED <<y, pc, result>>
  /\ UNCHANGED <<call_args, call_ret, bit_query, bit_answer, obj1, obj2, skip_pixels, backend, scanner, overlap, satRan, axes,
                 axisIdx>>

\* variant: the next row starts at the column the last one ended at
SeqNextRow_KeepsColumn ==
  /\ pc = "scan" /\ backend = "seq"
  /\ y < ScanHeight /\ x >= ScanWidth
  /\ y' = y + skip_pixels
  /\ UNCHANGED <<call_args, call_ret, bit_query, bit_answer, obj1, obj2, skip_pixels, backend, pc, result, scanner, overlap,
                 x, tested, lookups, satRan, axes, axisIdx>>

SeqNextRow ==
  /\ pc = "scan" /\ backend = "seq"
  /\ y < ScanHeight /\ x >= ScanWidth
  /\ y' = y + skip_pixels
  /\ x' = 0
  /\ UNCHANGED <<call_args, call_ret, bit_query, bit_answer, obj1, obj2, skip_pixels, backend, pc, result, scanner, overlap,
                 tested, lookups, satRan, axes, axisIdx>>

SeqReturnFalse ==
  /\ pc = "scan" /\ backend = "seq"
  /\ y >= ScanHeight
  /\ Return("false")
  /\ UNCHANGED <<call_args, call_ret, bit_query, bit_answer, obj1, obj2, skip_pixels, backend, scanner, overlap, y, x, tested,
                 lookups, satRan, axes, axisIdx>>

(* Parallel backend: row workers, each an `any` over its columns *)

Hits == {p \in tested : TestAt(p[1], p[2]).hit}

RowFound(py) == \E p \in Hits : p[1] = py

ParTest(py, px) ==
  /\ pc = "scan" /\ backend = "par"
  /\ <<py, px>> \in SampledPoints(overlap, skip_pixels) \ tested
  /\ ~RowFound(py)
  /\ tested' = tested \cup {<<py, px>>}
  /\ lookups' = lookups + TestAt(py, px).lookups
  /\ UNCHANGED <<call_args, call_ret, bit_query, bit_answer, obj1, obj2, skip_pixels, backend, pc, result, scanner, overlap,
                 y, x, satRan, axes, axisIdx>>

\* variant: the outer `any` stops as soon as any point has been tested
ParFinished_AnyTest == tested # {}

\* the outer `any` stops as soon as one row worker reports a hit
ParFinished == Hits # {}

ParReturnTrue ==
  /\ pc = "scan" /\ backend = "par"
  /\ ParFinished
  /\ Return("true")
  /\ UNCHANGED <<call_args, call_ret, bit_query, bit_answer, obj1, obj2, skip_pixels, backend, scanner, overlap, y, x, tested,
                 lookups, satRan, axes, axisIdx>>

\* variant: one row worker has finished its columns
AllRowsSearched_OneRow ==
  \E p \in SampledPoints(overlap, skip_pixels) :
    \A q \in SampledPoints(overlap, skip_pixels) : q[1] = p[1] => q \in tested

\* every row worker has searched all its columns
AllRowsSearched == tested = SampledPoints(overlap, skip_pixels)

ParReturnFalse ==
  /\ pc = "scan" /\ backend = "par"
  /\ AllRowsSearched
  /\ Hits = {}
  /\ Return("false")
  /\ UNCHANGED <<call_args, call_ret, bit_query, bit_answer, obj1, obj2, skip_pixels, backend, scanner, overlap, y, x, tested,
                 lookups, satRan, axes, axisIdx>>

(* check_rotated_rectangle_collision, step by step *)

RectFastPath ==
  /\ pc = "rect"
  /\ BothSmallAngles(obj1.angle, obj2.angle)
  /\ Return(IF AabbOverlap(obj1.pos, obj1.size, obj2.pos, obj2.size)
            THEN "true" ELSE "false")
  /\ UNCHANGED <<call_args, call_ret, bit_query, bit_answer, obj1, obj2, skip_pixels, backend, scanner, overlap, y, x, tested,
                 lookups, satRan, axes, axisIdx>>

Corners1 == Corners(obj1.pos, obj1.size, obj1.angle)

Corners2 == Corners(obj2.pos, obj2.size, obj2.angle)

RectCollectAxes ==
  /\ pc = "rect"
  /\ ~BothSmallAngles(obj1.angle, obj2.angle)
  /\ axes' = CollectAxes(Corners1, Corners2)
  /\ axisIdx' = 1
  /\ pc' = "axes"
  /\ UNCHANGED <<call_args, call_ret, bit_query, bit_answer, obj1, obj2, skip_pixels, backend, result, scanner, overlap, y, x,
                 tested, lookups, satRan>>

RectTestAxis ==
  /\ pc = "axes"
  /\ axisIdx <= Len(axes)
  /\ IF GapOnAxis(Corners1, Corners2, axes[axisIdx])
     THEN Return("false") /\ UNCHANGED axisIdx
     ELSE axisIdx' = axisIdx + 1 /\ UNCHANGED <<pc, result>>
  /\ UNCHANGED <<call_args, call_ret, bit_query, bit_answer, obj1, obj2, skip_pixels, backend, scanner, overlap, y, x, tested,
                 lookups, satRan, axes>>

RectNoGap ==
  /\ pc = "axes"
  /\ axisIdx > Len(axes)
  /\ Return("true")
  /\ UNCHANGED <<call_args, call_ret, bit_query, bit_answer, obj1, obj2, skip_pixels, backend, scanner, overlap, y, x, tested,
                 lookups, satRan, axes, axisIdx>>

Next ==
  \/ ComputeOverlap
  \/ ReturnNoOverlap
  \/ ReturnBoundingBox
  \/ CallRectangleTest
  \/ EnterScanner
  \/ PanicOnZeroStep
  \/ SeqTest
  \/ SeqNextRow
  \/ SeqReturnFalse
  \/ \E py \in 0..3, px \in 0..3 : ParTest(py, px)
  \/ ParReturnTrue
  \/ ParReturnFalse
  \/ RectFastPath
  \/ RectCollectAxes
  \/ RectTestAxis
  \/ RectNoGap

Spec == Init /\ [][Next]_vars

(* The pixel scans of a call whose bounding-box overlap has been computed:
   the loops are bounded for loops and rayon schedules its workers, so a
   started scan keeps taking steps *)

LiveShapes1 ==
  { Shape(Square(2), Texels(2), MaskTopLeft),
    Shape(Square(2), Texels(2), MaskEmpty) }

LiveShapes2 ==
  { Shape(Square(2), Texels(2), MaskAll),
    Shape(Square(4), Texels(4), MaskThird),
    Shape(Square(4), Texels(4), NoMask) }

LiveEntities1 ==
  { Entity(Vec2(0, 0), s.size, s.tex, a, s.mask) :
      s \in LiveShapes1, a \in {0, EighthTurn} }

LiveEntities2 ==
  { Entity(Vec2(i * Unit, 0), s.size, s.tex, a, s.mask) :
      i \in 0..MaxShift, s \in LiveShapes2, a \in {0, EighthTurn} }

InitLive ==
  /\ obj1 \in LiveEntities1
  /\ obj2 \in LiveEntities2
  /\ skip_pixels \in 1..MaxSkip
  /\ backend \in Backends
  /\ overlap = BoundingBoxOverlap(obj1, obj2)
  /\ pc = "dispatch"
  /\ result = "none"
  /\ scanner = "none"
  /\ y = 0
  /\ x = 0
  /\ tested = {}
  /\ lookups = 0
  /\ satRan = FALSE
  /\ axes = <<>>
  /\ axisIdx = 0
  /\ bit_query = NoQuery
  /\ bit_answer = "none"
  /\ call_args = NoCall
  /\ call_ret = "none"

NextLive ==
  \/ ReturnNoOverlap
  \/ EnterScanner
  \/ SeqTest
  \/ SeqNextRow
  \/ SeqReturnFalse
  \/ \E py \in 0..3, px \in 0..3 : ParTest(py, px)
  \/ ParReturnTrue
  \/ ParReturnFalse

SpecLive == InitLive /\ [][NextLive]_vars /\ WF_vars(NextLive)

----------------------------------------------------------------------------
(* One call of check_rotated_rectangle_collision on its own *)

Rect(pos, size, angle) == Entity(pos, size, Texels(1), angle, NoMask)

\* the smallest positive size of the grid: half of it is below the grid, so the
\* four corners coincide and no edge is longer than 0.0001, as for every
\* rectangle of the source whose width and height are at most 0.0001
TinySize == Vec2(1, 1)

RectSizes1 == {Square(2), Vec2(4 * Unit, 2 * Unit), TinySize}

\* the third rectangle has no width: two of its edges have length 0
RectSizes2 == {Square(2), Vec2(2 * Unit, 4 * Unit), Vec2(0, 2 * Unit), TinySize}

RectAngles1 == {0, SmallAngle, EighthTurn, QuarterTurn}

RectAngles2 == {0, -SmallAngle, EighthTurn, TWO_PI}

RectPositions ==
  { Vec2(px, py) :
      px \in {i * Unit : i \in (-2)..(MaxShift + 2)} \cup {2 * Unit + SMALL_ANGLE_THRESHOLD},
      py \in {0, 2 * Unit, 3 * Unit} }

Rects1 == { Rect(Vec2(0, 0), s, a) : s \in RectSizes1, a \in RectAngles1 }

Rects2 == { Rect(p, s, a) : p \in RectPositions, s \in RectSizes2, a \in RectAngles2 }

InitRect ==
  /\ obj1 \in Rects1
  /\ obj2 \in Rects2
  /\ skip_pixels = 1
  /\ backend = "seq"
  /\ pc = "rect"
  /\ result = "none"
  /\ scanner = "none"
  /\ overlap = NoOverlapRecord
  /\ y = 0
  /\ x = 0
  /\ tested = {}
  /\ lookups = 0
  /\ satRan = TRUE
  /\ axes = <<>>
  /\ axisIdx = 0
  /\ bit_query = NoQuery
  /\ bit_answer = "none"
  /\ call_args = NoCall
  /\ call_ret = "none"

NextRect ==
  \/ RectFastPath
  \/ RectCollectAxes
  \/ RectTestAxis
  \/ RectNoGap

SpecRect == InitRect /\ [][NextRect]_vars

----------------------------------------------------------------------------
(* One call of is_mask_bit_set on its own *)

ProbeBytes == {0, 1, 2, 4, 8, 16, 32, 64, 128, 255}

ProbeMasks == UNION {[1..n -> ProbeBytes] : n \in 0..MaxMaskLen}

\* indices up to one byte past the longest mask
ProbeIndices == 0..(8 * MaxMaskLen + 7)

InitBit ==
  /\ bit_query \in [mask : ProbeMasks, idx : ProbeIndices]
  /\ bit_answer = "none"
  /\ call_args = NoCall
  /\ call_ret = "none"
  /\ pc = "bit"
  /\ obj1 = Rect(Vec2(0, 0), Square(2), 0)
  /\ obj2 = Rect(Vec2(0, 0), Square(2), 0)
  /\ skip_pixels = 1
  /\ backend = "seq"
  /\ result = "none"
  /\ scanner = "none"
  /\ overlap = NoOverlapRecord
  /\ y = 0
  /\ x = 0
  /\ tested = {}
  /\ lookups = 0
  /\ satRan = FALSE
  /\ axes = <<>>
  /\ axisIdx = 0

LookupBit ==
  /\ pc = "bit"
  /\ bit_answer' = is_mask_bit_set(bit_query.mask, bit_query.idx)
  /\ pc' = "done"
  /\ UNCHANGED <<call_args, call_ret, bit_query, obj1, obj2, skip_pixels, backend, result, scanner,
                 overlap, y, x, tested, lookups, satRan, axes, axisIdx>>

NextBit == LookupBit

SpecBit == InitBit /\ [][NextBit]_vars

----------------------------------------------------------------------------
(* One call of a geometry utility on its own *)

\* the variables of a check_collision call
callVars == <<obj1, obj2, skip_pixels, backend, result, scanner, overlap, y, x,
              tested, lookups, satRan, axes, axisIdx, bit_query, bit_answer>>

\* no check_collision call is in progress
IdleCall ==
  /\ obj1 = Rect(Vec2(0, 0), Square(2), 0)
  /\ obj2 = Rect(Vec2(0, 0), Square(2), 0)
  /\ skip_pixels = 1
  /\ backend = "seq"
  /\ result = "none"
  /\ scanner = "none"
  /\ overlap = NoOverlapRecord
  /\ y = 0
  /\ x = 0
  /\ tested = {}
  /\ lookups = 0
  /\ satRan = FALSE
  /\ axes = <<>>
  /\ axisIdx = 0
  /\ bit_query = NoQuery
  /\ bit_answer = "none"

(* calc_tex_coord *)

\* offsets of the point from the rectangle's origin, along one axis
TexOffsets ==
  {-Unit, -1, 0, 1, Unit \div 2, Unit - 1, Unit, 2 * Unit - 1, 2 * Unit, 3 * Unit}

\* rectangle extents along one axis; the first two are below 0.001
TexExtents == {-Unit, 0, 1, Unit, 2 * Unit}

\* texel counts along one axis
TexCounts == 1..MaxTexels

InitTex ==
  /\ call_args \in [point : {Vec2(ox, oy) : ox \in TexOffsets, oy \in {-1, 0, Unit}},
                    pos : {Vec2(0, 0)},
                    size : {Vec2(w, h) : w \in TexExtents, h \in {0, Unit}},
                    tex_size : {Vec2(tw, th) : tw \in TexCounts, th \in {1, MaxTexels}}]
  /\ call_ret = "none"
  /\ pc = "tex"
  /\ IdleCall

CallCalcTexCoord ==
  /\ pc = "tex"
  /\ call_ret' = calc_tex_coord(call_args.point, call_args.pos, call_args.size,
                                call_args.tex_size)
  /\ pc' = "tex_done"
  /\ UNCHANGED <<call_args, callVars>>

NextTex == CallCalcTexCoord

SpecTex == InitTex /\ [][NextTex]_vars

(* calculate_rotated_bounding_box *)

\* rectangle extents along one axis; 0 is a degenerate rectangle
BoxExtents == {i * Unit : i \in 0..MaxBoxExtent}

BoxAngles ==
  {0, SmallAngle, -SmallAngle, EighthTurn, -EighthTurn, QuarterTurn, PI, -PI, TWO_PI}

InitBox ==
  /\ call_args \in [pos : {Vec2(0, 0), Vec2(Unit, -Unit)},
                    size : {Vec2(w, h) : w \in BoxExtents, h \in BoxExtents},
                    angle : BoxAngles]
  /\ call_ret = "none"
  /\ pc = "box"
  /\ IdleCall

CallBoundingBox ==
  /\ pc = "box"
  /\ call_ret' = calculate_rotated_bounding_box(call_args.pos, call_args.size,
                                                call_args.angle)
  /\ pc' = "box_done"
  /\ UNCHANGED <<call_args, callVars>>

NextBox == CallBoundingBox

SpecBox == InitBox /\ [][NextBox]_vars

(* the angle normalization of rotate_point *)

\* non-zero angles: every tenth of a radian and every multiple of pi up to
\* MaxHalfTurns half turns either way, with the values next to each multiple
NormAngles ==
  ({i * 100 : i \in -(MaxHalfTurns * 32)..(MaxHalfTurns * 32)}
     \cup {k * PI + d : k \in -MaxHalfTurns..MaxHalfTurns, d \in {-1, 0, 1}})
  \ {0}

InitAngle ==
  /\ call_args \in [angle : NormAngles]
  /\ call_ret = "none"
  /\ pc = "angle"
  /\ IdleCall

CallNormalize ==
  /\ pc = "angle"
  /\ call_ret' = [normalized_angle |-> NormalizeAngle(call_args.angle)]
  /\ pc' = "angle_done"
  /\ UNCHANGED <<call_args, callVars>>

NextAngle == CallNormalize

SpecAngle == InitAngle /\ [][NextAngle]_vars

----------------------------------------------------------------------------
(* Properties *)

Unmasked(e) == ~e.mask.some

Finished == pc = "done"

\* C1: when the rotated bounding boxes do not overlap (overlap_w <= 0 or
\* overlap_h <= 0) the call returns false for every stride and every mask, and
\* no scanner, mask lookup or rectangle test has run.
C1_DisjointBoxesReturnFalse ==
  (pc \notin {"start", "dispatch"} /\ (overlap.w <= 0 \/ overlap.h <= 0))
    => /\ pc = "done"
       /\ result = "false"
       /\ scanner = "none"
       /\ tested = {}
       /\ lookups = 0
       /\ ~satRan

C1_Witness ==
  /\ pc = "done"
  /\ overlap.w <= 0
  /\ obj1.mask = MaskAll
  /\ obj2.mask = MaskAll
  /\ skip_pixels = 0
  /\ result = "false"

\* C2: without masks and with both angles exactly 0 the result is the strict
\* axis-aligned overlap predicate; rectangles that only touch give false.
C2_UnrotatedSolidIsAabb ==
  (Finished /\ Unmasked(obj1) /\ Unmasked(obj2) /\ obj1.angle = 0 /\ obj2.angle = 0)
    => (result = "true"
          <=> /\ obj1.pos.x < obj2.pos.x + obj2.size.x
              /\ obj1.pos.x + obj1.size.x > obj2.pos.x
              /\ obj1.pos.y < obj2.pos.y + obj2.size.y
              /\ obj1.pos.y + obj1.size.y > obj2.pos.y)

C2_Witness ==
  /\ Finished /\ Unmasked(obj1) /\ Unmasked(obj2)
  /\ obj1.angle = 0 /\ obj2.angle = 0
  /\ obj1.pos.x + obj1.size.x = obj2.pos.x
  /\ result = "false"

\* C3: a collision reported at any stride k >= 1 is also reported at stride 1.
C3_SparseNeverOverDetects ==
  (Finished /\ skip_pixels >= 1 /\ result = "true")
    => check_collision(obj1, obj2, 1) = "true"

C3_Witness ==
  /\ Finished /\ skip_pixels = 2 /\ scanner # "none"
  /\ ScanWidth >= 2 /\ ScanHeight >= 2
  /\ result = "true"

\* C4: a finished scan, under either backend and any interleaving of the row
\* workers, returns true iff at least one sampled point passes the per-point test.
C4_BackendsAgree ==
  (Finished /\ scanner # "none")
    => (result = "true"
          <=> \E py \in 0..(ScanHeight - 1), px \in 0..(ScanWidth - 1) :
                /\ py % skip_pixels = 0
                /\ px % skip_pixels = 0
                /\ TestAt(py, px).hit)

C4_Witness ==
  /\ Finished /\ backend = "par" /\ result = "true"
  /\ Cardinality(tested) >= 2
  /\ tested # SampledPoints(overlap, skip_pixels)

\* C5: the rectangle test gives the same result with its two rectangles swapped.
C5_RectangleTestSymmetric ==
  Finished
    => result = Outcome(check_rotated_rectangle_collision(
                          obj2.pos, obj2.size, obj2.angle,
                          obj1.pos, obj1.size, obj1.angle))

C5_Witness ==
  /\ Finished /\ result = "false"
  /\ Len(axes) = 8
  /\ obj1.size # obj2.size
  /\ obj1.angle # obj2.angle

\* the overlap test with equality admitted on every side
ClosedOverlap(pos1, size1, pos2, size2) ==
  /\ pos1.x <= pos2.x + size2.x
  /\ pos1.x + size1.x >= pos2.x
  /\ pos1.y <= pos2.y + size2.y
  /\ pos1.y + size1.y >= pos2.y

\* every edge of both rectangles yields an axis: widths and heights above 0.0001
AllEdgesSignificant == Len(CollectAxes(Corners1, Corners2)) = 8

\* C6 as stated: for angles both below the threshold the separating-axis
\* procedure and the strict axis-aligned test give the same boolean.
C6_SmallAnglePathsAgree ==
  BothSmallAngles(obj1.angle, obj2.angle)
    => (SeparatingAxisTest(obj1.pos, obj1.size, obj1.angle,
                           obj2.pos, obj2.size, obj2.angle)
          <=> AabbOverlap(obj1.pos, obj1.size, obj2.pos, obj2.size))

\* C6 amended: for angles both exactly 0 and sizes above 0.0001 the
\* separating-axis procedure reports overlap iff the rectangles overlap or
\* touch, so it differs from the strict test exactly on rectangles that touch.
C6_ZeroAngleSatIsClosedOverlap ==
  (obj1.angle = 0 /\ obj2.angle = 0 /\ AllEdgesSignificant)
    => (SeparatingAxisTest(obj1.pos, obj1.size, obj1.angle,
                           obj2.pos, obj2.size, obj2.angle)
          <=> ClosedOverlap(obj1.pos, obj1.size, obj2.pos, obj2.size))

C6_Witness ==
  /\ obj1.angle = 0 /\ obj2.angle = 0
  /\ pc = "done"
  /\ obj1.pos.x + obj1.size.x = obj2.pos.x
  /\ result = "false"
  /\ SeparatingAxisTest(obj1.pos, obj1.size, obj1.angle,
                        obj2.pos, obj2.size, obj2.angle)

IsSquare(e) == e.size.x = e.size.y

\* C7: a masked square entity gives the same result at angle 2*pi (one full
\* turn) as at angle 0 against the same second entity and stride.
C7_FullTurnSameResult ==
  (Finished /\ obj1.mask.some /\ IsSquare(obj1) /\ obj1.angle = TWO_PI
     /\ skip_pixels >= 1)
    => result = check_collision([obj1 EXCEPT !.angle = 0], obj2, skip_pixels)

\* the texel of entity e under a point of its unrotated frame is opaque
\* (written out from the mask layout: row-major, most significant bit first)
TexelOpaque(e, point) ==
  LET tx == TexCoord(point.x - e.pos.x, e.size.x, e.tex.x)
      ty == TexCoord(point.y - e.pos.y, e.size.y, e.tex.y)
      idx == ty * e.tex.x + tx
  IN  /\ idx \div 8 < Len(e.mask.bytes)
      /\ (e.mask.bytes[idx \div 8 + 1] \div Pow2(7 - (idx % 8))) % 2 = 1

InRect(point, e) ==
  /\ e.pos.x <= point.x /\ point.x < e.pos.x + e.size.x
  /\ e.pos.y <= point.y /\ point.y < e.pos.y + e.size.y

\* the sampled world points: (overlap_x + i, overlap_y + j), i and j multiples
\* of the stride below the truncated overlap width and height
SampledWorldPoints ==
  { Vec2(overlap.x + i * Unit, overlap.y + j * Unit) :
      i \in {n \in 0..(overlap.w \div Unit - 1) : n % skip_pixels = 0},
      j \in {n \in 0..(overlap.h \div Unit - 1) : n % skip_pixels = 0} }

TopLeftOnly(e) ==
  e.size = Square(2) /\ e.tex = Texels(2) /\ e.mask = MaskTopLeft /\ e.angle = 0

\* C8: with both masks present and both angles 0 the result is true iff some
\* sampled point is opaque in both masks; two 2x2-texel entities on 2x2
\* rectangles with only the top-left texel opaque collide at the same position
\* and do not collide when one is shifted by exactly one unit.
C8_BothMaskedUnrotated ==
  (Finished /\ skip_pixels >= 1 /\ obj1.mask.some /\ obj2.mask.some
     /\ obj1.angle = 0 /\ obj2.angle = 0)
    => /\ result = "true"
            <=> \E p \in SampledWorldPoints : TexelOpaque(obj1, p) /\ TexelOpaque(obj2, p)
       /\ (TopLeftOnly(obj1) /\ TopLeftOnly(obj2) /\ skip_pixels = 1)
            => /\ obj2.pos = obj1.pos => result = "true"
               /\ obj2.pos = Vec2(obj1.pos.x + Unit, obj1.pos.y) => result = "false"
               /\ obj2.pos = Vec2(obj1.pos.x, obj1.pos.y + Unit) => result = "false"

C8_Witness ==
  /\ Finished /\ TopLeftOnly(obj1) /\ TopLeftOnly(obj2) /\ skip_pixels = 1
  /\ obj2.pos = Vec2(obj1.pos.x + Unit, obj1.pos.y)
  /\ Cardinality(tested) = 2
  /\ result = "false"

ExactlyOneMask == obj1.mask.some # obj2.mask.some

MaskedOne == IF obj1.mask.some THEN obj1 ELSE obj2

SolidOne == IF obj1.mask.some THEN obj2 ELSE obj1

\* the texels of e whose mask bit is 1, as <<tx, ty>>
OpaqueTexels(e) ==
  { t \in (0..(e.tex.x - 1)) \X (0..(e.tex.y - 1)) :
      UnwrapOrFalse(is_mask_bit_set(e.mask.bytes, t[2] * e.tex.x + t[1])) }

\* the world footprint of texel t of the unrotated entity e
FootLeft(e, t) == e.pos.x + (t[1] * e.size.x) \div e.tex.x

FootRight(e, t) == e.pos.x + ((t[1] + 1) * e.size.x) \div e.tex.x

FootTop(e, t) == e.pos.y + (t[2] * e.size.y) \div e.tex.y

FootBottom(e, t) == e.pos.y + ((t[2] + 1) * e.size.y) \div e.tex.y

FootprintInside(e, t, o) ==
  /\ o.pos.x <= FootLeft(e, t) /\ FootRight(e, t) <= o.pos.x + o.size.x
  /\ o.pos.y <= FootTop(e, t) /\ FootBottom(e, t) <= o.pos.y + o.size.y

FootprintOutside(e, t, o) ==
  \/ FootRight(e, t) <= o.pos.x \/ o.pos.x + o.size.x <= FootLeft(e, t)
  \/ FootBottom(e, t) <= o.pos.y \/ o.pos.y + o.size.y <= FootTop(e, t)

FootprintSampled(e, t) ==
  \E p \in SampledWorldPoints :
    /\ FootLeft(e, t) <= p.x /\ p.x < FootRight(e, t)
    /\ FootTop(e, t) <= p.y /\ p.y < FootBottom(e, t)

OneMaskedCase ==
  /\ Finished /\ skip_pixels >= 1 /\ ExactlyOneMask
  /\ obj1.angle = 0 /\ obj2.angle = 0

SomeSampleOpaqueAndInside ==
  \E p \in SampledWorldPoints : TexelOpaque(MaskedOne, p) /\ InRect(p, SolidOne)

C10_NeverPanics == pc # "panicked"

\* the angle of e is below the small-angle threshold in magnitude
BelowThreshold(e) ==
  -SMALL_ANGLE_THRESHOLD < e.angle /\ e.angle < SMALL_ANGLE_THRESHOLD

\* the unrotated rectangles of a and b overlap with positive width and height
StrictOverlap(a, b) ==
  /\ a.pos.x < b.pos.x + b.size.x /\ b.pos.x < a.pos.x + a.size.x
  /\ a.pos.y < b.pos.y + b.size.y /\ b.pos.y < a.pos.y + a.size.y

SolidPairWithOverlap ==
  /\ Finished /\ Unmasked(obj1) /\ Unmasked(obj2)
  /\ overlap.w > 0 /\ overlap.h > 0

\* C11 as stated: without masks and with both angles below the threshold the
\* call returns true whenever the rotated bounding boxes overlap, and the
\* rectangle test is consulted only when some angle reaches the threshold.
C11_BoundingBoxDecidesBelowThreshold ==
  (SolidPairWithOverlap /\ BelowThreshold(obj1) /\ BelowThreshold(obj2))
    => (result = "true" /\ ~satRan)

\* C11 amended: without masks the bounding-box overlap is conclusive only when
\* both angles are exactly 0; with both angles below the threshold and one of
\* them non-zero the rectangle test runs and its fast path returns the strict
\* overlap of the unrotated rectangles; its separating-axis path runs exactly
\* when some angle reaches the threshold.
C11_RectangleTestDecidesWhenRotated ==
  SolidPairWithOverlap
    => /\ (obj1.angle = 0 /\ obj2.angle = 0) => (result = "true" /\ ~satRan)
       /\ (obj1.angle # 0 \/ obj2.angle # 0) => satRan
       /\ (BelowThreshold(obj1) /\ BelowThreshold(obj2))
            => (axisIdx = 0 /\ (result = "true" <=> StrictOverlap(obj1, obj2)))
       /\ ~(BelowThreshold(obj1) /\ BelowThreshold(obj2)) => axisIdx >= 1

C11_Witness ==
  /\ SolidPairWithOverlap
  /\ obj1.angle = 0 /\ obj2.angle = SmallAngle
  /\ satRan /\ axisIdx = 0
  /\ ~StrictOverlap(obj1, obj2)
  /\ result = "false"

\* C12: a call changes neither entity nor the stride, and its result is a
\* function of the two entities and the stride alone, whichever backend ran and
\* however the row workers interleaved.
C12_PureFunctionOfInputs ==
  /\ [](Finished => result = check_collision(obj1, obj2, skip_pixels))
  /\ [][obj1' = obj1 /\ obj2' = obj2 /\ skip_pixels' = skip_pixels]_vars

C12_Witness ==
  /\ Finished /\ backend = "par"
  /\ scanner = "both_rotated_masked"
  /\ Cardinality(tested) >= 2
  /\ result = "true"
  /\ check_collision(obj1, obj2, skip_pixels) = "true"

\* the scanner the rotation state and the mask availability call for
ExpectedScanner ==
  IF obj1.angle # 0 \/ obj2.angle # 0
  THEN (IF obj1.mask.some /\ obj2.mask.some THEN "both_rotated_masked"
        ELSE IF obj1.mask.some THEN "one_rotated_masked_1"
        ELSE "one_rotated_masked_2")
  ELSE (IF obj1.mask.some /\ obj2.mask.some THEN "both_masked"
        ELSE IF obj1.mask.some THEN "one_masked_1"
        ELSE "one_masked_2")

\* a world point taken back into the unrotated frame of entity e
LocalOf(e, p) ==
  rotate_point(p, Vec2(e.pos.x + e.size.x \div 2, e.pos.y + e.size.y \div 2), -e.angle)

\* the three conditions of the one-mask rotated scan at world point p
RotatedSampleHit(m, o, p) ==
  /\ InRect(LocalOf(m, p), m)
  /\ TexelOpaque(m, LocalOf(m, p))
  /\ InRect(LocalOf(o, p), o)

\* C13: once the bounding boxes overlap and a mask is present exactly one
\* scanner is chosen: a rotation-aware one iff some angle is non-zero, the
\* one-mask or the two-mask form by the number of masks; when only the second
\* entity has the mask, it is the second entity whose mask is read and the
\* first that is tested for containment.
C13_DispatcherPicksScanner ==
  /\ (pc \in {"scan", "done", "panicked"} /\ overlap.w > 0 /\ overlap.h > 0
        /\ (obj1.mask.some \/ obj2.mask.some))
       => scanner = ExpectedScanner
  /\ (Finished /\ scanner = "one_masked_2")
       => (result = "true"
             <=> \E p \in SampledWorldPoints : TexelOpaque(obj2, p) /\ InRect(p, obj1))
  /\ (Finished /\ scanner = "one_rotated_masked_2")
       => (result = "true"
             <=> \E p \in SampledWorldPoints : RotatedSampleHit(obj2, obj1, p))

C13_Witness ==
  /\ Finished /\ scanner = "one_rotated_masked_2"
  /\ ~obj1.mask.some /\ obj2.mask.some
  /\ obj1.angle # 0
  /\ result = "true"

\* C14: without masks no pixel scan and no mask lookup ever runs, whatever the
\* angles and the stride: the result is false when the rotated bounding boxes do
\* not overlap, else the rectangle test on the original positions, sizes and
\* angles when some angle is non-zero, else true.
C14_SolidPairsNeverScan ==
  (Unmasked(obj1) /\ Unmasked(obj2))
    => /\ scanner = "none" /\ tested = {} /\ lookups = 0
       /\ pc \notin {"scan", "panicked"}
       /\ Finished
            => result =
                 Outcome(IF overlap.w <= 0 \/ overlap.h <= 0 THEN FALSE
                         ELSE IF obj1.angle # 0 \/ obj2.angle # 0
                         THEN check_rotated_rectangle_collision(
                                obj1.pos, obj1.size, obj1.angle,
                                obj2.pos, obj2.size, obj2.angle)
                         ELSE TRUE)

C14_Witness ==
  /\ Finished /\ Unmasked(obj1) /\ Unmasked(obj2)
  /\ obj2.angle = EighthTurn
  /\ skip_pixels = 0
  /\ satRan /\ axisIdx >= 1
  /\ result = "true"

\* the world point of a tested (row, column) offset
TestedWorld(p) == Vec2(overlap.x + p[2] * Unit, overlap.y + p[1] * Unit)

OneRotatedCase ==
  /\ scanner \in {"one_rotated_masked_1", "one_rotated_masked_2"}
  /\ pc \in {"scan", "done"}

RotMasked == IF scanner = "one_rotated_masked_1" THEN obj1 ELSE obj2

RotOther == IF scanner = "one_rotated_masked_1" THEN obj2 ELSE obj1

\* C15: in the one-mask rotated scan a sampled point counts iff (1) its image
\* under rotation by -masked_angle about the masked entity's centre lies in the
\* masked entity's half-open rectangle, (2) the texel there is opaque and (3) its
\* image under rotation by -other_angle about the other centre lies in the other
\* half-open rectangle; the mask is read only for points that pass (1).
C15_OneRotatedMaskedPointTest ==
  OneRotatedCase
    => /\ \A p \in tested :
            TestAt(p[1], p[2]).hit
              <=> RotatedSampleHit(RotMasked, RotOther, TestedWorld(p))
       /\ lookups =
            Cardinality({p \in tested :
                           InRect(LocalOf(RotMasked, TestedWorld(p)), RotMasked)})
       /\ Finished
            => (result = "true"
                  <=> \E p \in SampledWorldPoints :
                        RotatedSampleHit(RotMasked, RotOther, p))

C15_Witness ==
  /\ OneRotatedCase /\ Finished
  /\ RotMasked.angle = EighthTurn
  /\ lookups >= 1
  /\ lookups < Cardinality(tested)
  /\ result = "true"

\* the conditions of the two-mask rotated scan at world point p
BothInLocalRects(p) == InRect(LocalOf(obj1, p), obj1) /\ InRect(LocalOf(obj2, p), obj2)

BothRotatedSampleHit(p) ==
  /\ BothInLocalRects(p)
  /\ TexelOpaque(obj1, LocalOf(obj1, p))
  /\ TexelOpaque(obj2, LocalOf(obj2, p))

BothRotatedCase == scanner = "both_rotated_masked" /\ pc \in {"scan", "done"}

\* C16: in the two-mask rotated scan a sampled point counts iff both of its
\* inverse-rotated local points lie in their entities' half-open rectangles and
\* both texels there are opaque; a point outside either local rectangle is
\* skipped without a mask lookup; the call is true iff some sampled point counts.
C16_BothRotatedMaskedPointTest ==
  BothRotatedCase
    => /\ \A p \in tested :
            TestAt(p[1], p[2]).hit <=> BothRotatedSampleHit(TestedWorld(p))
       /\ lookups = 2 * Cardinality({p \in tested : BothInLocalRects(TestedWorld(p))})
       /\ Finished
            => (result = "true"
                  <=> \E p \in SampledWorldPoints : BothRotatedSampleHit(p))

C16_Witness ==
  /\ BothRotatedCase /\ Finished
  /\ obj1.angle = EighthTurn /\ obj2.angle = SmallAngle
  /\ lookups >= 2
  /\ lookups < 2 * Cardinality(tested)
  /\ result = "true"

\* the eight edges, first rectangle first
AllEdges == Edges(Corners1) \o Edges(Corners2)

\* an edge longer than 0.0001
NonDegenerate(edge) == edge.x # 0 \/ edge.y # 0

\* axis n is, up to rounding, a unit vector perpendicular to the edge
UnitNormalOf(n, edge) ==
  /\ Abs(n.x * edge.x + n.y * edge.y) <= Abs(edge.x) + Abs(edge.y)
  /\ Abs(n.x * n.x + n.y * n.y - Unit * Unit) <= 4 * Unit

\* the projections of the two corner sets on axis n do not meet
AxisGap(n) ==
  \/ \A i \in 1..4, j \in 1..4 :
       Projection(Corners1[i], n) > Projection(Corners2[j], n)
  \/ \A i \in 1..4, j \in 1..4 :
       Projection(Corners2[j], n) > Projection(Corners1[i], n)

\* the second rectangle, unrotated up to a full turn, lies against the right
\* edge of the unrotated first one
TouchingSideBySide ==
  /\ obj1.angle = 0 /\ obj2.angle = TWO_PI
  /\ obj2.pos.x = obj1.pos.x + obj1.size.x
  /\ obj2.pos.y <= obj1.pos.y + obj1.size.y
  /\ obj1.pos.y <= obj2.pos.y + obj2.size.y

\* C17: on the general path the candidate axes are the unit normals of the
\* edges longer than 0.0001 of both rectangles; the result is false iff some
\* axis has the two projection intervals separated (min1 > max2 or min2 > max1),
\* true only after every axis was tested without a gap; intervals that merely
\* touch are no gap, so rectangles that touch are reported as overlapping.
C17_GeneralPathSeparatingAxis ==
  (Finished /\ axisIdx >= 1)
    => /\ Len(axes) = Len(SelectSeq(AllEdges, NonDegenerate))
       /\ \A k \in 1..Len(axes) :
            UnitNormalOf(axes[k], SelectSeq(AllEdges, NonDegenerate)[k])
       /\ result = "false" <=> \E k \in 1..Len(axes) : AxisGap(axes[k])
       /\ result = "true" => axisIdx = Len(axes) + 1
       /\ result = "false"
            => /\ AxisGap(axes[axisIdx])
               /\ \A k \in 1..(axisIdx - 1) : ~AxisGap(axes[k])
       /\ TouchingSideBySide => result = "true"

C17_Witness ==
  /\ Finished /\ axisIdx >= 1
  /\ TouchingSideBySide
  /\ Len(axes) = 8
  /\ result = "true"

\* C18: with both angles below the threshold the rectangle test ignores the
\* angles and returns the strict axis-aligned overlap of the unrotated
\* rectangles; when only one angle is below it the separating-axis path runs
\* with both angles.
C18_FastPathBelowThreshold ==
  Finished
    => /\ (BelowThreshold(obj1) /\ BelowThreshold(obj2))
            => /\ axisIdx = 0 /\ axes = <<>>
               /\ result = "true" <=> StrictOverlap(obj1, obj2)
       /\ ~(BelowThreshold(obj1) /\ BelowThreshold(obj2))
            => /\ axisIdx >= 1
               /\ result = Outcome(SeparatingAxisTest(obj1.pos, obj1.size, obj1.angle,
                                                      obj2.pos, obj2.size, obj2.angle))

C18_Witness ==
  /\ Finished
  /\ obj1.angle = SmallAngle /\ obj2.angle = -SmallAngle
  /\ axisIdx = 0
  /\ result = "false"
  /\ SeparatingAxisTest(obj1.pos, obj1.size, obj1.angle,
                        obj2.pos, obj2.size, obj2.angle)

\* bit n of a byte, n = 0 the lowest
BitOfByte(byte, n) == (byte \div (2 ^ n)) % 2

Answered == pc = "done" /\ bit_answer # "none"

\* C19: is_mask_bit_set returns None exactly when idx / 8 is not below the
\* mask's length, and otherwise whether bit (7 - idx % 8) of byte idx / 8 is 1:
\* index 0 is the top bit of byte 0, index 7 its lowest bit, index 8 the top
\* bit of byte 1.
C19_MaskBitLookup ==
  Answered
    => /\ bit_answer = "None" <=> bit_query.idx \div 8 >= Len(bit_query.mask)
       /\ bit_answer # "None"
            => (bit_answer = "true"
                  <=> BitOfByte(bit_query.mask[bit_query.idx \div 8 + 1],
                                7 - (bit_query.idx % 8)) = 1)
       /\ (bit_query.idx = 0 /\ Len(bit_query.mask) >= 1)
            => (bit_answer = "true" <=> bit_query.mask[1] >= 128)
       /\ (bit_query.idx = 7 /\ Len(bit_query.mask) >= 1)
            => (bit_answer = "true" <=> bit_query.mask[1] % 2 = 1)
       /\ (bit_query.idx = 8 /\ Len(bit_query.mask) >= 2)
            => (bit_answer = "true" <=> bit_query.mask[2] >= 128)

C19_Witness ==
  /\ Answered
  /\ bit_query.mask = <<1, 128>>
  /\ bit_query.idx = 8
  /\ bit_answer = "true"

\* the mask index computed for entity e at a point of its unrotated frame
IndexAt(e, point) ==
  TexCoord(point.y - e.pos.y, e.size.y, e.tex.y) * e.tex.x
    + TexCoord(point.x - e.pos.x, e.size.x, e.tex.x)

\* e has a mask and the index computed at the point has no byte in it
BeyondMask(e, point) ==
  e.mask.some /\ IndexAt(e, point) \div 8 >= Len(e.mask.bytes)

BeyondSomeMask(p) ==
  \/ BeyondMask(obj1, LocalOf(obj1, p))
  \/ BeyondMask(obj2, LocalOf(obj2, p))

EmptyMask(e) == e.mask.some /\ Len(e.mask.bytes) = 0

\* C20: in every pixel scanner a sampled point whose mask index lies beyond the
\* mask's length is not a collision point; an entity whose mask is present but
\* empty never collides, whatever the angles and the stride.
C20_MissingBitsNeverCollide ==
  /\ (scanner # "none" /\ pc \in {"scan", "done"})
       => \A p \in tested :
            BeyondSomeMask(TestedWorld(p)) => ~TestAt(p[1], p[2]).hit
  /\ (EmptyMask(obj1) \/ EmptyMask(obj2)) => result # "true"
  /\ (Finished /\ scanner # "none"
        /\ \A p \in SampledWorldPoints : BeyondSomeMask(p))
       => result = "false"

C20_Witness ==
  /\ Finished
  /\ obj1.mask = MaskTopRows /\ obj2.mask = MaskAll
  /\ scanner = "both_masked"
  /\ Cardinality(tested) >= 2
  /\ \A p \in tested : BeyondMask(obj1, LocalOf(obj1, TestedWorld(p)))
  /\ \E p \in tested : /\ InRect(LocalOf(obj1, TestedWorld(p)), obj1)
                       /\ InRect(LocalOf(obj2, TestedWorld(p)), obj2)
                       /\ TexelOpaque(obj2, LocalOf(obj2, TestedWorld(p)))
  /\ result = "false"

\* C21: calc_tex_coord returns 0 <= tx < tex_size.x and 0 <= ty < tex_size.y
\* for every point (left of, above, on or beyond the far edge included) and
\* every size (sizes below 0.001 count as 0.001) when the texture dimensions are
\* integers >= 1.
C21_TexCoordInRange ==
  pc = "tex_done"
    => /\ 0 <= call_ret.tx /\ call_ret.tx < call_args.tex_size.x
       /\ 0 <= call_ret.ty /\ call_ret.ty < call_args.tex_size.y
       /\ call_args.point.x <= call_args.pos.x => call_ret.tx = 0
       /\ call_args.point.y <= call_args.pos.y => call_ret.ty = 0
       /\ (call_args.size.x >= 1
             /\ call_args.point.x >= call_args.pos.x + call_args.size.x)
            => call_ret.tx = call_args.tex_size.x - 1
       /\ (call_args.size.x < 1 /\ call_args.point.x >= call_args.pos.x + 1)
            => call_ret.tx = call_args.tex_size.x - 1

C21_Witness ==
  /\ pc = "tex_done"
  /\ call_args.size.x = 0
  /\ call_args.point.x = 3 * Unit
  /\ call_args.point.y = -1
  /\ call_args.tex_size = Vec2(MaxTexels, MaxTexels)
  /\ call_ret = [tx |-> MaxTexels - 1, ty |-> 0]

\* the four corners of the rectangle in call_args, rotated about its centre
RotatedCornersOfCall ==
  {rotate_point(Vec2(call_args.pos.x + dx, call_args.pos.y + dy),
                Center(call_args.pos, call_args.size), call_args.angle) :
     dx \in {0, call_args.size.x}, dy \in {0, call_args.size.y}}

LeastOf(S) == CHOOSE v \in S : \A w \in S : v <= w

GreatestOf(S) == CHOOSE v \in S : \A w \in S : v >= w

TwoPercent(len) == len \div 50

\* C22: calculate_rotated_bounding_box returns (pos, size) unchanged for angle
\* exactly 0; for any other angle the position is the least corner coordinate
\* minus 2% of the original width / height, the size is the corners' extent plus
\* twice that margin, and every rotated corner lies inside the returned box.
C22_RotatedBoundingBox ==
  pc = "box_done"
    => IF call_args.angle = 0
       THEN call_ret = [pos |-> call_args.pos, size |-> call_args.size]
       ELSE /\ call_ret.pos.x = LeastOf({c.x : c \in RotatedCornersOfCall})
                                  - TwoPercent(call_args.size.x)
            /\ call_ret.pos.y = LeastOf({c.y : c \in RotatedCornersOfCall})
                                  - TwoPercent(call_args.size.y)
            /\ call_ret.size.x = GreatestOf({c.x : c \in RotatedCornersOfCall})
                                   - LeastOf({c.x : c \in RotatedCornersOfCall})
                                   + 2 * TwoPercent(call_args.size.x)
            /\ call_ret.size.y = GreatestOf({c.y : c \in RotatedCornersOfCall})
                                   - LeastOf({c.y : c \in RotatedCornersOfCall})
                                   + 2 * TwoPercent(call_args.size.y)
            /\ \A c \in RotatedCornersOfCall :
                 /\ call_ret.pos.x <= c.x /\ c.x <= call_ret.pos.x + call_ret.size.x
                 /\ call_ret.pos.y <= c.y /\ c.y <= call_ret.pos.y + call_ret.size.y

\* a 2 x 1 rectangle turned by an eighth of a turn: the box is wider and taller
\* than the rectangle's extent along either axis
C22_Witness ==
  /\ pc = "box_done"
  /\ call_args.angle = EighthTurn
  /\ call_args.size = Vec2(2 * Unit, Unit)
  /\ call_ret.size.x > 2 * Unit
  /\ call_ret.size.y > 2 * Unit
  /\ call_ret.pos.x < call_args.pos.x

WholeTurns(d) == d % TWO_PI = 0

\* C23 as stated: for every non-zero input angle the angle rotate_point uses
\* lies in the half-open interval (-pi, pi] and differs from the input by a
\* whole number of turns.
C23_NormalizedHalfOpen ==
  pc = "angle_done"
    => /\ -PI < call_ret.normalized_angle
       /\ call_ret.normalized_angle <= PI
       /\ WholeTurns(call_args.angle - call_ret.normalized_angle)

\* C23 (amended): the angle rotate_point uses lies in the closed interval
\* [-pi, pi] and differs from the input by a whole number of turns; it is -pi
\* exactly when the input is -pi or another odd multiple of -pi.
C23_NormalizedClosed ==
  pc = "angle_done"
    => /\ -PI <= call_ret.normalized_angle
       /\ call_ret.normalized_angle <= PI
       /\ WholeTurns(call_args.angle - call_ret.normalized_angle)
       /\ call_ret.normalized_angle = -PI
            <=> (call_args.angle < 0 /\ WholeTurns(call_args.angle + PI))

C23_Witness ==
  /\ pc = "angle_done"
  /\ call_args.angle = -3 * PI
  /\ call_ret.normalized_angle = -PI

\* sampled points that come before (py, px) in row-major order
RowMajorBefore(py, px) ==
  {p \in SampledPoints(overlap, skip_pixels) :
     p[1] < py \/ (p[1] = py /\ p[2] < px)}

\* ceil(len / step) for a whole length
CeilDiv(len, step) == (len + step - 1) \div step

SeqScan == scanner # "none" /\ backend = "seq" /\ skip_pixels >= 1

ParScan == scanner # "none" /\ backend = "par" /\ skip_pixels >= 1

\* the sequential loops have visited exactly the sampled points before (y, x)
SeqScanInOrder ==
  (SeqScan /\ pc = "scan") => tested = RowMajorBefore(y, x)

\* true is returned at the first colliding point, in row-major order
SeqTrueAtFirstHit ==
  (SeqScan /\ Finished /\ result = "true")
    => /\ tested = RowMajorBefore(y, x) \cup {<<y, x>>}
       /\ Hits = {<<y, x>>}

\* false is returned only after all ceil(H/skip) * ceil(W/skip) points
SeqFalseAfterAll ==
  (SeqScan /\ Finished /\ result = "false")
    => /\ tested = SampledPoints(overlap, skip_pixels)
       /\ Hits = {}
       /\ Cardinality(tested) = CeilDiv(AsUsize(overlap.h), skip_pixels)
                                  * CeilDiv(AsUsize(overlap.w), skip_pixels)

\* the parallel form answers true exactly on a found collision
ParAnswer ==
  (ParScan /\ Finished)
    => /\ result = "true" <=> Hits # {}
       /\ result = "false" => tested = SampledPoints(overlap, skip_pixels)

\* C24: for skip_pixels >= 1 every pixel scan terminates; the sequential form
\* tests each sampled point at most once in row-major order, returns true at
\* the first colliding point without testing later ones, and returns false only
\* after all ceil(H/skip) * ceil(W/skip) sampled points were tested; the
\* parallel form stops once a worker has found a collision.
C24_ScansTerminateInOrder ==
  /\ [](SeqScanInOrder /\ SeqTrueAtFirstHit /\ SeqFalseAfterAll /\ ParAnswer)
  /\ [][SeqTest => <<y, x>> \notin tested]_vars
  /\ [][\A py \in 0..3, px \in 0..3 : ParTest(py, px) => <<py, px>> \notin tested]_vars
  /\ (pc = "scan") ~> Finished
  /\ (pc = "scan" /\ Hits # {}) ~> (Finished /\ result = "true")

\* a sequential scan that tested several points, missed on all and returned
C24_Witness ==
  /\ SeqScan /\ Finished /\ result = "false"
  /\ skip_pixels = 1
  /\ Cardinality(tested) >= 4

\* C25: check_collision is symmetric in its two entities: for every stride
\* k >= 1 the call on (a, b) returns what the call on (b, a) returns, on every
\* dispatch path.
C25_SymmetricInEntities ==
  (Finished /\ skip_pixels >= 1)
    => result = check_collision(obj2, obj1, skip_pixels)

\* a rotated, masked pair of different shapes that collides either way round
C25_Witness ==
  /\ Finished /\ skip_pixels >= 1
  /\ scanner = "one_rotated_masked_2"
  /\ obj1.size # obj2.size
  /\ obj1.pos # obj2.pos
  /\ result = "true"
  /\ check_collision(obj2, obj1, skip_pixels) = "true"

\* a pixel scan ran over an overlap narrower than one world unit
SubUnitOverlap ==
  /\ scanner # "none" /\ skip_pixels >= 1
  /\ overlap.w > 0 /\ overlap.h > 0
  /\ (overlap.w < Unit \/ overlap.h < Unit)

\* C26: in the masked paths the scan ranges are the truncated overlap width and
\* height, so when the bounding-box overlap is positive but narrower than one
\* world unit in width or height no point is sampled and check_collision
\* returns false, even at stride 1 and with every mask bit opaque.
C26_SubUnitOverlapSamplesNothing ==
  SubUnitOverlap
    => /\ tested = {}
       /\ lookups = 0
       /\ SampledPoints(overlap, skip_pixels) = {}
       /\ pc \in {"scan", "done"}
       /\ Finished => result = "false"

\* two fully opaque entities whose boxes share a strip less than a unit wide
C26_Witness ==
  /\ SubUnitOverlap /\ Finished
  /\ skip_pixels = 1
  /\ obj1.mask = MaskAll /\ obj2.mask = MaskAll
  /\ overlap.w < Unit /\ overlap.h >= Unit
  /\ result = "false"

OneMaskedScan == scanner \in {"one_masked_1", "one_masked_2"} /\ skip_pixels >= 1

\* the world point the scanners compute for the sampled index pair p
WorldOf(p) == WorldPoint(overlap, p[1], p[2])

\* C27: in the unrotated one-masked scanner every sampled point lies inside
\* both entities' half-open rectangles, so the containment test on the unmasked
\* entity is always true there and the result is "some sampled point is opaque
\* in the mask".
C27_OneMaskedContainmentAlwaysTrue ==
  OneMaskedScan
    => /\ \A p \in SampledPoints(overlap, skip_pixels) :
            /\ InRect(WorldOf(p), obj1)
            /\ InRect(WorldOf(p), obj2)
            /\ overlap.x <= WorldOf(p).x /\ WorldOf(p).x < overlap.x + overlap.w
            /\ overlap.y <= WorldOf(p).y /\ WorldOf(p).y < overlap.y + overlap.h
            /\ is_point_in_bounds(WorldOf(p), SolidOne.pos, SolidOne.size)
       /\ Finished
            => (result = "true"
                  <=> \E p \in SampledPoints(overlap, skip_pixels) :
                        OpaqueAt(MaskedOne, WorldOf(p)))

\* a one-masked scan that tested points up to the last column and found one
C27_Witness ==
  /\ OneMaskedScan /\ Finished
  /\ result = "true"
  /\ \E p \in tested : p[2] = AsUsize(overlap.w) - 1 /\ p[2] > 0

\* two unmasked entities of positive size, at least one turned
SolidTurnedPair ==
  /\ Unmasked(obj1) /\ Unmasked(obj2)
  /\ obj1.angle # 0 \/ obj2.angle # 0
  /\ obj1.size.x > 0 /\ obj1.size.y > 0
  /\ obj2.size.x > 0 /\ obj2.size.y > 0

BoxesOverlap ==
  /\ BoundingBoxOverlap(obj1, obj2).w > 0
  /\ BoundingBoxOverlap(obj1, obj2).h > 0

\* C28 as stated: for two unmasked entities of positive size with some
\* non-zero angle, whenever check_rotated_rectangle_collision returns true the
\* rotated bounding boxes overlap with positive width and height, so
\* check_collision returns true.
C28_AnyPositiveSize ==
  (Finished /\ SolidTurnedPair /\ result = "true")
    => /\ BoxesOverlap
       /\ check_collision(obj1, obj2, skip_pixels) = "true"

\* C28 (amended): the bounding-box rejection never hides a rectangle collision
\* of two unmasked entities, some angle non-zero, whose widths and heights all
\* exceed 0.0001: whenever check_rotated_rectangle_collision returns true the
\* rotated bounding boxes overlap with positive width and height and
\* check_collision returns true.
C28_BoundingBoxNeverHidesCollision ==
  (Finished /\ SolidTurnedPair /\ AllEdgesSignificant /\ result = "true")
    => /\ BoxesOverlap
       /\ check_collision(obj1, obj2, skip_pixels) = "true"

\* side by side and only touching: the unrotated rectangles share an edge, the
\* second is turned by a full turn, and only the 2% margin makes the boxes overlap
C28_Witness ==
  /\ Finished /\ SolidTurnedPair /\ AllEdgesSignificant /\ result = "true"
  /\ obj1.angle = 0 /\ obj2.angle = TWO_PI
  /\ obj2.pos.x = obj1.pos.x + obj1.size.x
  /\ BoundingBoxOverlap(obj1, obj2).w > 0
  /\ BoundingBoxOverlap(obj1, obj2).w < Unit
  /\ check_collision(obj1, obj2, skip_pixels) = "true"

Solid(e) == [e EXCEPT !.mask = NoMask]

\* both angles exactly 0, or at least one at or above the threshold
ZeroOrTurned ==
  \/ obj1.angle = 0 /\ obj2.angle = 0
  \/ Abs(obj1.angle) >= SMALL_ANGLE_THRESHOLD
  \/ Abs(obj2.angle) >= SMALL_ANGLE_THRESHOLD

MaskedCollision ==
  /\ Finished /\ result = "true"
  /\ obj1.mask.some \/ obj2.mask.some
  /\ obj1.size.x > 0 /\ obj1.size.y > 0
  /\ obj2.size.x > 0 /\ obj2.size.y > 0
  /\ ZeroOrTurned

\* C29: masks can only remove collisions: for entities of positive size whose
\* angles are both exactly 0 or of which one has |angle| >= 0.05, a call that
\* returns true with one or both masks present also returns true for the same
\* positions, sizes and angles with both masks absent.
C29_MasksOnlyRemoveCollisions ==
  MaskedCollision
    => check_collision(Solid(obj1), Solid(obj2), skip_pixels) = "true"

\* a turned masked entity that collides, decided without masks by the
\* separating-axis path
C29_Witness ==
  /\ MaskedCollision
  /\ scanner = "one_rotated_masked_2"
  /\ obj2.angle = EighthTurn
  /\ ~BothSmallAngles(obj1.angle, obj2.angle)
  /\ check_collision(Solid(obj1), Solid(obj2), skip_pixels) = "true"

\* the mask index a scanner computes for entity e at world point wp
ScanIndex(e, wp) ==
  MaskIndex(calc_tex_coord(LocalPoint(e, wp), e.pos, e.size, e.tex), e.tex)

TexelCount(e) == e.tex.x * e.tex.y

\* the mask holds at least ceil(W * H / 8) bytes
MaskCoversTexture(e) == 8 * Len(e.mask.bytes) >= TexelCount(e)

\* C30: for an entity whose texture width W and height H are integers >= 1,
\* every mask index a scanner computes (ty * W + tx from calc_tex_coord) is
\* below W * H, so with a mask of at least ceil(W * H / 8) bytes the bit lookup
\* never returns None during a scan.
C30_MaskIndexBelowTexelCount ==
  (scanner # "none" /\ skip_pixels >= 1)
    => \A p \in SampledPoints(overlap, skip_pixels) :
         \A e \in {obj1, obj2} :
           e.mask.some
             => /\ 0 <= ScanIndex(e, WorldOf(p))
                /\ ScanIndex(e, WorldOf(p)) < TexelCount(e)
                /\ MaskCoversTexture(e)
                     => is_mask_bit_set(e.mask.bytes, ScanIndex(e, WorldOf(p))) # "None"

\* a scan that read the last texel of a 2x2 texture whose mask covers it
C30_Witness ==
  /\ scanner # "none" /\ skip_pixels >= 1
  /\ obj1.mask = MaskAll /\ MaskCoversTexture(obj1)
  /\ \E p \in tested :
       /\ ScanIndex(obj1, WorldOf(p)) = TexelCount(obj1) - 1
       /\ is_mask_bit_set(obj1.mask.bytes, ScanIndex(obj1, WorldOf(p))) = "true"

====
